---- MODULE Spec2Model ----
(***************************************************************************)
(* homebridge-pushbot: the connection lifecycle of one PushBotAccessory    *)
(* (the Device Controller).  The model follows src/unnamed/part_000, the   *)
(* variant with the on-demand connect in handleSetOn and the heartbeat     *)
(* timer; src/index.js is the variant without either.                      *)
(*                                                                         *)
(* JavaScript runs every continuation to its next await without            *)
(* interleaving, so one action is one continuation: the resolution of an   *)
(* awaited promise (adapter I/O or a sleep) together with the synchronous  *)
(* code that follows it up to the next await.  The outcome of adapter I/O  *)
(* is an input of the action (\E ok \in BOOLEAN).  Time is not modelled:   *)
(* adapter I/O takes arbitrarily long.                                     *)
(*                                                                         *)
(* Two smaller specifications stand beside the Controller's: RegistrySpec, *)
(* the loop of PushBotPlatform.discoverDevices over config.devices, and    *)
(* MatchingSpec, the normalisation and comparison of hardware addresses.   *)
(***************************************************************************)
EXTENDS Naturals, Sequences, FiniteSets

\* ----------------------------------------------------------------- bounds
\* link losses the environment may cause in one behaviour
MaxLoss == 1
\* activation requests with value true the host may issue in one behaviour
MaxRequests == 2
\* the same under FairSpec, where the temporal claims are checked
MaxFairRequests == 1
\* interval timer ids the runtime can hand out
MaxTimers == 2
\* entries of config.devices
MaxDevices == 2
\* characters of an address string
MaxAddrLen == 3

\* ------------------------------------------------------ program constants
WRITE_RETRY_COUNT == 3

\* concurrently running handleSetOn invocations (each with its auto-off timer)
Acts == {1, 2}
\* callers of connectDevice: 0 is startScanningLoop, the others are activations
LOOP == 0
Callers == {LOOP} \cup Acts
TimerIds == 1..MaxTimers

VARIABLES
    adapter,        \* this.adapter: "none" (not yet resolved), "ok", "failed"
    device,         \* this.device is set (a device handle was resolved)
    isConnected,    \* this.isConnected
    writeChar,      \* this.writeChar: "none" (undefined/null), "live", "stale"
    notifyChar,     \* this.notifyChar: "none" (undefined), "set" (a handle with no
                    \* subscription on the present link) or "subscribed"; never cleared
    isSwitchOn,     \* this.isSwitchOn
    heartbeatTimer, \* this.heartbeatTimer: 0 (null) or the id of the last interval
    timers,         \* interval timers that are live (set and not cleared)
    observers,      \* a once('disconnect') listener is registered
    linkUp,         \* the transport link to the peripheral is up
    losses,         \* link losses so far
    lpc,            \* startScanningLoop: the await it is suspended at
    cpc,            \* connectDevice, per caller: the await it is suspended at
    apc,            \* handleSetOn, per invocation: the await it is suspended at
    idx,            \* handleSetOn: the retry loop's i
    wh,             \* handleSetOn: the handle its write in flight went to: "none",
                    \* "live", "lost" (link lost since), "stale" (stale when issued)
    conn,           \* handleSetOn: "ready" (it found a connection and a write handle),
                    \* "needed" (it did not), then "ok" / "fail" (its connectDevice)
    log,            \* handleSetOn: outcomes of its write attempts so far
    setOn,          \* handleSetOn: this invocation executed isSwitchOn = true
    result,         \* handleSetOn: how the promise it returned settled
    reading,        \* a notifyChar.readValue() of the heartbeat is in flight
    budget,         \* activation requests with value true the host may still issue
    configDevices,  \* PushBotPlatform: this.config.devices, the entries in list order
    accessories,    \* the entries (by position) whose accessory was registered
    rpc,            \* discoverDevices: "off", "loop", "done" or "threw"
    next,           \* discoverDevices: the position of the entry the for loop is at
    mac_address,    \* config.mac_address as written by the user
    macAddress,     \* this.macAddress as the constructor stored it
    addr,           \* an address reported by adapter.devices()
    matched,        \* the outcome of the comparison of the scan
    mpc             \* the address comparison: "off", "new", "constructed", "compared"

ctl == <<isConnected, writeChar, notifyChar>>
hb == <<heartbeatTimer, timers>>
env == <<observers, linkUp, losses>>
act == <<apc, idx, wh, conn, log, setOn, result>>
registry == <<configDevices, accessories, rpc, next>>
matching == <<mac_address, macAddress, addr, matched, mpc>>
outside == <<registry, matching>>
vars == <<adapter, device, isConnected, writeChar, notifyChar, isSwitchOn,
          heartbeatTimer, timers, observers, linkUp, losses, lpc, cpc,
          apc, idx, wh, conn, log, setOn, result, reading, budget,
          configDevices, accessories, rpc, next,
          mac_address, macAddress, addr, matched, mpc>>

\* the state the constructor leaves: nothing connected, the switch off, no
\* timer, no handler running
constructed ==
    /\ adapter = "none"
    /\ device = FALSE
    /\ isConnected = FALSE
    /\ writeChar = "none"
    /\ notifyChar = "none"
    /\ isSwitchOn = FALSE
    /\ heartbeatTimer = 0
    /\ timers = {}
    /\ observers = FALSE
    /\ linkUp = FALSE
    /\ losses = 0
    /\ lpc = "off"
    /\ cpc = [c \in Callers |-> "idle"]
    /\ apc = [a \in Acts |-> "idle"]
    /\ idx = [a \in Acts |-> 0]
    /\ wh = [a \in Acts |-> "none"]
    /\ conn = [a \in Acts |-> "none"]
    /\ log = [a \in Acts |-> <<>>]
    /\ setOn = [a \in Acts |-> FALSE]
    /\ result = [a \in Acts |-> "none"]
    /\ reading = FALSE

\* the registry of the platform is not part of this behaviour
registryOff ==
    /\ configDevices = <<>>
    /\ accessories = <<>>
    /\ rpc = "off"
    /\ next = 1

\* nor is the address comparison
matchingOff ==
    /\ mac_address = <<>>
    /\ macAddress = <<>>
    /\ addr = <<>>
    /\ matched = FALSE
    /\ mpc = "off"

Init == constructed /\ budget = MaxRequests /\ registryOff /\ matchingOff

InitFair == constructed /\ budget = MaxFairRequests /\ registryOff /\ matchingOff

\* ------------------------------------------------------------ heartbeat

\* clearInterval(id): the timer is no longer live; the id variable is untouched
clearInterval(id, live) == live \ {id}

\* if (this.heartbeatTimer) clearInterval(this.heartbeatTimer);
clearHeartbeat == IF heartbeatTimer # 0 THEN clearInterval(heartbeatTimer, timers) ELSE timers

\* setInterval hands out an id no live timer has
freshTimer(live) == CHOOSE t \in TimerIds \ live : \A u \in TimerIds \ live : t <= u

\* a variant without the clearInterval in front of the setInterval
startHeartbeat_noClear ==
    /\ TimerIds \ timers # {}
    /\ heartbeatTimer' = freshTimer(timers)
    /\ timers' = timers \cup {freshTimer(timers)}

\* if (this.heartbeatTimer) clearInterval(this.heartbeatTimer);
\* this.heartbeatTimer = setInterval(...)
startHeartbeat ==
    /\ TimerIds \ clearHeartbeat # {}
    /\ heartbeatTimer' = freshTimer(clearHeartbeat)
    /\ timers' = clearHeartbeat \cup {freshTimer(clearHeartbeat)}

\* an activation is between the start and the completion of its retry loop
inRetryLoop(a) == apc[a] \in {"write", "backoff"}

\* the interval callback of a live timer:
\* if (this.isConnected && this.notifyChar) await this.notifyChar.readValue();
\* A firing that finds the guard false does nothing.  One read is tracked at a
\* time: a read in flight can always settle first, so no state is lost.
heartbeatFire ==
    /\ timers # {}
    /\ ~reading
    /\ isConnected /\ notifyChar # "none"
    /\ reading' = TRUE
    /\ UNCHANGED <<outside, adapter, device, ctl, isSwitchOn, hb, env, lpc, cpc, act, budget>>

\* the read settles; try {...} catch (e) {} swallows its result and its error
HeartbeatReadResolve ==
    /\ reading
    /\ reading' = FALSE
    /\ UNCHANGED <<outside, adapter, device, ctl, isSwitchOn, hb, env, lpc, cpc, act, budget>>

\* ---------------------------------------------------------- connectDevice

\* the disconnect listener: isConnected = false; writeChar = null; stop the timer
onDisconnect ==
    /\ isConnected' = FALSE
    /\ writeChar' = "none"
    /\ timers' = clearHeartbeat
    /\ UNCHANGED heartbeatTimer

\* a handle resolved on a link that has since gone down
stale(h) == IF h = "none" THEN "none" ELSE "stale"

\* a write in flight on a link that goes down
lost(h) == IF h = "live" THEN "lost" ELSE h

\* The environment drops the link.  Every registered once-listener runs in the
\* same emit; a loss that finds no listener is seen by nobody.
LinkLoss ==
    /\ linkUp
    /\ losses < MaxLoss
    /\ linkUp' = FALSE
    /\ losses' = losses + 1
    /\ observers' = FALSE
    /\ wh' = [a \in Acts |-> lost(wh[a])]
    /\ notifyChar' = IF notifyChar = "subscribed" THEN "set" ELSE notifyChar
    /\ IF observers
       THEN onDisconnect
       ELSE /\ writeChar' = stale(writeChar)
            /\ UNCHANGED <<isConnected, hb>>
    /\ UNCHANGED <<outside, adapter, device, isSwitchOn, lpc, cpc, apc, idx, conn, log, setOn,
                   result, reading, budget>>

\* a variant whose catch rethrows without the rollback
connectThrows_noRollback(c) ==
    /\ UNCHANGED isConnected
    /\ cpc' = [cpc EXCEPT ![c] = "threw"]

\* catch (e) { this.isConnected = false; throw e; }
connectThrows(c) ==
    /\ isConnected' = FALSE
    /\ cpc' = [cpc EXCEPT ![c] = "threw"]

\* a variant that serializes: a call aborts the sequences already in flight
connectCall_aborts(c) ==
    /\ cpc' = [d \in Callers |->
                 IF d = c THEN "connect"
                 ELSE IF cpc[d] \in {"idle", "returned", "threw"} THEN cpc[d] ELSE "threw"]
    /\ UNCHANGED isConnected

\* the call of connectDevice up to its first await: this.device.connect() is a
\* TypeError when no device handle was ever resolved
connectCall(c) ==
    IF device
    THEN /\ cpc' = [cpc EXCEPT ![c] = "connect"]
         /\ UNCHANGED isConnected
    ELSE connectThrows(c)

\* await this.device.connect(); this.isConnected = true;
ConnectResolve(c) ==
    /\ cpc[c] = "connect"
    /\ \E ok \in BOOLEAN :
         IF ok
         THEN /\ linkUp' = TRUE
              /\ isConnected' = TRUE
              /\ cpc' = [cpc EXCEPT ![c] = "service"]
         ELSE /\ connectThrows(c)
              /\ UNCHANGED linkUp
    /\ UNCHANGED <<outside, adapter, device, writeChar, notifyChar, isSwitchOn, hb, observers,
                   losses, lpc, act, reading, budget>>

\* const gatt = await this.device.gatt(); await sleep(GATT_WAIT_MS);
\* const service = await gatt.getPrimaryService(this.serviceUuid);
\* the three awaits touch no field of the accessory, so they are one step
\* whose failure is the failure of any of them; then getCharacteristic(writeUuid)
ServiceResolve(c) ==
    /\ cpc[c] = "service"
    /\ \E ok \in {linkUp, FALSE} :
         IF ok
         THEN /\ cpc' = [cpc EXCEPT ![c] = "wchar"]
              /\ UNCHANGED isConnected
         ELSE connectThrows(c)
    /\ UNCHANGED <<outside, adapter, device, writeChar, notifyChar, isSwitchOn, hb, env,
                   lpc, act, reading, budget>>

\* this.writeChar = await service.getCharacteristic(this.writeUuid);
WriteCharResolve(c) ==
    /\ cpc[c] = "wchar"
    /\ \E ok \in {linkUp, FALSE} :
         IF ok
         THEN /\ writeChar' = "live"
              /\ cpc' = [cpc EXCEPT ![c] = "nchar"]
              /\ UNCHANGED isConnected
         ELSE /\ connectThrows(c)
              /\ UNCHANGED writeChar
    /\ UNCHANGED <<outside, adapter, device, notifyChar, isSwitchOn, hb, env, lpc, act, reading, budget>>

\* this.device.once('disconnect', ...) and the normal return
registerAndReturn(c) ==
    /\ observers' = TRUE
    /\ cpc' = [cpc EXCEPT ![c] = "returned"]

\* this.notifyChar = await service.getCharacteristic(this.notifyUuid); a
\* failure is caught: the heartbeat is skipped and the sequence goes on
NotifyCharResolve(c) ==
    /\ cpc[c] = "nchar"
    /\ \E ok \in {linkUp, FALSE} :
         IF ok
         THEN /\ notifyChar' = "set"
              /\ cpc' = [cpc EXCEPT ![c] = "notif"]
              /\ UNCHANGED observers
         ELSE /\ registerAndReturn(c)
              /\ UNCHANGED notifyChar
    /\ UNCHANGED <<outside, adapter, device, isConnected, writeChar, isSwitchOn, hb, linkUp,
                   losses, lpc, act, reading, budget>>

\* await this.notifyChar.startNotifications(); this.startHeartbeat();
StartNotificationsResolve(c) ==
    /\ cpc[c] = "notif"
    /\ registerAndReturn(c)
    /\ \E ok \in {linkUp, FALSE} :
         IF ok
         THEN /\ notifyChar' = "subscribed"
              /\ startHeartbeat
         ELSE UNCHANGED <<notifyChar, hb>>
    /\ UNCHANGED <<outside, adapter, device, isConnected, writeChar, isSwitchOn, linkUp, losses, lpc,
                   act, reading, budget>>

connectDevice(c) ==
    \/ ConnectResolve(c)
    \/ ServiceResolve(c)
    \/ WriteCharResolve(c)
    \/ NotifyCharResolve(c)
    \/ StartNotificationsResolve(c)

\* ------------------------------------------------------ startScanningLoop

\* the top of while (true): a scan iteration starts when not connected, with
\* the best-effort stopDiscovery(); otherwise the loop sleeps again
loopTop == lpc' = IF ~isConnected THEN "stop0" ELSE "sleep"

\* a variant without the try/catch: the error ends the loop
loopCatch_fatal == lpc' = "off"

\* catch (e) { log.error(...) } and on to sleep(RECONNECT_DELAY_MS)
loopCatch == lpc' = "sleep"

\* this.adapter = await bluetooth.defaultAdapter(); this.startScanningLoop();
\* a failure is logged and the loop never starts
initNodeBle ==
    /\ adapter = "none"
    /\ \E ok \in BOOLEAN :
         IF ok
         THEN adapter' = "ok" /\ loopTop
         ELSE adapter' = "failed" /\ UNCHANGED lpc
    /\ UNCHANGED <<outside, device, ctl, isSwitchOn, hb, env, cpc, act, reading, budget>>

\* try { await this.adapter.stopDiscovery(); } catch(e) {}
StopPriorResolve ==
    /\ lpc = "stop0"
    /\ lpc' = "start"
    /\ UNCHANGED <<outside, adapter, device, ctl, isSwitchOn, hb, env, cpc, act,
                   reading, budget>>

\* await this.adapter.startDiscovery(); then sleep(SCAN_DURATION_MS)
StartDiscoveryResolve ==
    /\ lpc = "start"
    /\ \E ok \in BOOLEAN :
         IF ok THEN lpc' = "scan" ELSE loopCatch
    /\ UNCHANGED <<outside, adapter, device, ctl, isSwitchOn, hb, env, cpc, act,
                   reading, budget>>

\* the scan window is over: stopDiscovery() is issued
ScanWindowDone ==
    /\ lpc = "scan"
    /\ lpc' = "stop"
    /\ UNCHANGED <<outside, adapter, device, ctl, isSwitchOn, hb, env, cpc, act, reading, budget>>

\* await this.adapter.stopDiscovery(); then adapter.devices() is issued
StopDiscoveryResolve ==
    /\ lpc = "stop"
    /\ \E ok \in BOOLEAN :
         IF ok THEN lpc' = "devices" ELSE loopCatch
    /\ UNCHANGED <<outside, adapter, device, ctl, isSwitchOn, hb, env, cpc, act,
                   reading, budget>>

\* const devices = await this.adapter.devices(); the for loop looks for the
\* configured address: on a match getDevice(addr) is issued, else the loop sleeps
DevicesResolve ==
    /\ lpc = "devices"
    /\ \E ok \in BOOLEAN, found \in BOOLEAN :
         IF ~ok THEN loopCatch
         ELSE IF found THEN lpc' = "getDevice"
         ELSE lpc' = "sleep"
    /\ UNCHANGED <<outside, adapter, device, ctl, isSwitchOn, hb, env, cpc, act,
                   reading, budget>>

\* this.device = await this.adapter.getDevice(addr); await this.connectDevice();
GetDeviceResolve ==
    /\ lpc = "getDevice"
    /\ \E ok \in BOOLEAN :
         IF ok
         THEN /\ device' = TRUE
              /\ lpc' = "connect"
              /\ cpc' = [cpc EXCEPT ![LOOP] = "connect"]
         ELSE /\ loopCatch
              /\ UNCHANGED <<device, cpc>>
    /\ UNCHANGED <<outside, adapter, ctl, isSwitchOn, hb, env, act, reading, budget>>

\* connectDevice settled: break on its return, catch on its throw; both sleep
LoopAfterConnect ==
    /\ lpc = "connect"
    /\ cpc[LOOP] \in {"returned", "threw"}
    /\ cpc' = [cpc EXCEPT ![LOOP] = "idle"]
    /\ IF cpc[LOOP] = "threw"
       THEN loopCatch
       ELSE lpc' = "sleep"
    /\ UNCHANGED <<outside, adapter, device, ctl, isSwitchOn, hb, env, act, reading,
                   budget>>

\* await sleep(CONFIG.RECONNECT_DELAY_MS) is over: back to the top of the loop
ReconnectDelayDone ==
    /\ lpc = "sleep"
    /\ loopTop
    /\ UNCHANGED <<outside, adapter, device, ctl, isSwitchOn, hb, env, cpc, act,
                   reading, budget>>

startScanningLoop ==
    \/ StopPriorResolve
    \/ StartDiscoveryResolve
    \/ ScanWindowDone
    \/ StopDiscoveryResolve
    \/ DevicesResolve
    \/ GetDeviceResolve
    \/ LoopAfterConnect
    \/ ReconnectDelayDone

\* ------------------------------------------------------------ handleSetOn

\* setTimeout(() => {...}, CONFIG.AUTO_OFF_MS) and the handler's normal return
scheduleAutoOff(a) ==
    /\ apc' = [apc EXCEPT ![a] = "timer"]
    /\ result' = [result EXCEPT ![a] = "resolved"]

\* a variant whose setTimeout sits inside the try block: the catch ends the
\* handler without an auto-off timer
controlFailed_noTimer(a) ==
    /\ apc' = [apc EXCEPT ![a] = "idle"]
    /\ result' = [result EXCEPT ![a] = "resolved"]

\* a variant whose catch throws the error on to the host
controlFailed_rethrows(a) ==
    /\ apc' = [apc EXCEPT ![a] = "timer"]
    /\ result' = [result EXCEPT ![a] = "rejected"]

\* catch (e) { this.log.error(...) }: control leaves the try block and
\* reaches the setTimeout after it
controlFailed(a) == scheduleAutoOff(a)

\* if (this.heartbeatTimer) clearInterval(...); log; await sleep(300)
prepareSend(a) ==
    /\ timers' = clearHeartbeat
    /\ apc' = [apc EXCEPT ![a] = "settle"]
    /\ UNCHANGED heartbeatTimer

\* a variant in which a request with value false turns the switch off
handleSetOnFalse_turnsOff ==
    /\ isSwitchOn' = FALSE
    /\ UNCHANGED <<outside, adapter, device, ctl, hb, env, lpc, cpc, act, reading, budget>>

\* handleSetOn(false): if (!value) return;
handleSetOnFalse == UNCHANGED vars

\* a variant that tests the connection flag alone
notReady_flagOnly == ~isConnected

\* if (!this.isConnected || !this.writeChar)
notReady == ~isConnected \/ writeChar = "none"

\* handleSetOn(true) up to its first await: the on-demand connectDevice() when
\* not connected or without write handle, else straight to the send
handleSetOnTrue(a) ==
    /\ apc[a] = "idle"
    /\ \A b \in Acts : b < a => apc[b] # "idle"
    /\ budget > 0
    /\ budget' = budget - 1
    /\ conn' = [conn EXCEPT ![a] = IF isConnected /\ writeChar # "none"
                                    THEN "ready" ELSE "needed"]
    /\ IF notReady
       THEN /\ connectCall(a)
            /\ apc' = [apc EXCEPT ![a] = "conn"]
            /\ UNCHANGED hb
       ELSE /\ prepareSend(a)
            /\ UNCHANGED <<isConnected, cpc>>
    /\ UNCHANGED <<outside, adapter, device, writeChar, notifyChar, isSwitchOn, env, lpc, idx,
                   wh, log, setOn, result, reading>>

\* the on-demand connectDevice() settled: on its return the send is prepared,
\* on its throw the outer catch takes over and no write is made
AfterOnDemandConnect(a) ==
    /\ apc[a] = "conn"
    /\ cpc[a] \in {"returned", "threw"}
    /\ cpc' = [cpc EXCEPT ![a] = "idle"]
    /\ IF cpc[a] = "returned"
       THEN /\ conn' = [conn EXCEPT ![a] = "ok"]
            /\ prepareSend(a)
            /\ UNCHANGED result
       ELSE /\ conn' = [conn EXCEPT ![a] = "fail"]
            /\ controlFailed(a)
            /\ UNCHANGED hb
    /\ UNCHANGED <<outside, adapter, device, ctl, isSwitchOn, env, lpc, idx, wh, log, setOn,
                   reading, budget>>

\* a variant that assigns the flag: this.isSwitchOn = success;
finishSend_assigns(a, success) ==
    /\ isSwitchOn' = success
    /\ setOn' = [setOn EXCEPT ![a] = success]
    /\ startHeartbeat
    /\ scheduleAutoOff(a)

\* a variant without the if (success) test
finishSend_noTest(a, success) ==
    /\ isSwitchOn' = TRUE
    /\ setOn' = [setOn EXCEPT ![a] = TRUE]
    /\ startHeartbeat
    /\ scheduleAutoOff(a)

\* the end of the try block, after the retry loop:
\* if (success) { this.isSwitchOn = true; } this.startHeartbeat();
\* and then the setTimeout
finishSend(a, success) ==
    /\ isSwitchOn' = IF success THEN TRUE ELSE isSwitchOn
    /\ setOn' = [setOn EXCEPT ![a] = success]
    /\ startHeartbeat
    /\ scheduleAutoOff(a)

\* a variant whose loop test is i <= WRITE_RETRY_COUNT
attempt_offByOne(a, i) ==
    IF i <= WRITE_RETRY_COUNT
    THEN /\ idx' = [idx EXCEPT ![a] = i]
         /\ IF writeChar = "none"
            THEN /\ log' = [log EXCEPT ![a] = Append(@, "fail")]
                 /\ apc' = [apc EXCEPT ![a] = "backoff"]
                 /\ UNCHANGED wh
            ELSE /\ wh' = [wh EXCEPT ![a] = writeChar]
                 /\ apc' = [apc EXCEPT ![a] = "write"]
                 /\ UNCHANGED log
         /\ UNCHANGED <<isSwitchOn, setOn, hb, result>>
    ELSE /\ finishSend(a, FALSE)
         /\ UNCHANGED <<idx, wh, log>>

\* one pass of for (let i = 0; i < WRITE_RETRY_COUNT; i++) from its test to
\* its await: writeValue() goes to this.writeChar as it is now; on a null
\* handle the call is a TypeError, caught like a failed write (sleep(500))
attempt(a, i) ==
    IF i < WRITE_RETRY_COUNT
    THEN /\ idx' = [idx EXCEPT ![a] = i]
         /\ IF writeChar = "none"
            THEN /\ log' = [log EXCEPT ![a] = Append(@, "fail")]
                 /\ apc' = [apc EXCEPT ![a] = "backoff"]
                 /\ UNCHANGED wh
            ELSE /\ wh' = [wh EXCEPT ![a] = writeChar]
                 /\ apc' = [apc EXCEPT ![a] = "write"]
                 /\ UNCHANGED log
         /\ UNCHANGED <<isSwitchOn, setOn, hb, result>>
    ELSE /\ finishSend(a, FALSE)
         /\ UNCHANGED <<idx, wh, log>>

\* await sleep(300) is over: the retry loop starts
SendSettleDone(a) ==
    /\ apc[a] = "settle"
    /\ attempt(a, 0)
    /\ UNCHANGED <<outside, adapter, device, ctl, env, lpc, cpc, conn, reading, budget>>

\* await this.writeChar.writeValue(this.pushCommand, { type: 'request' }): the
\* peripheral can acknowledge only on the link the handle was resolved on.
\* Acknowledged: success = true; break;  failed: log.warn; await sleep(500)
WriteResolve(a) ==
    /\ apc[a] = "write"
    /\ wh' = [wh EXCEPT ![a] = "none"]
    /\ \E ok \in {linkUp /\ wh[a] = "live", FALSE} :
         IF ok
         THEN /\ log' = [log EXCEPT ![a] = Append(@, "ack")]
              /\ finishSend(a, TRUE)
         ELSE /\ log' = [log EXCEPT ![a] = Append(@, "fail")]
              /\ apc' = [apc EXCEPT ![a] = "backoff"]
              /\ UNCHANGED <<isSwitchOn, setOn, hb, result>>
    /\ UNCHANGED <<outside, adapter, device, ctl, env, lpc, cpc, idx, conn, reading, budget>>

\* await sleep(500) is over: i++ and the next pass of the retry loop
BackoffDone(a) ==
    /\ apc[a] = "backoff"
    /\ attempt(a, idx[a] + 1)
    /\ UNCHANGED <<outside, adapter, device, ctl, env, lpc, cpc, conn, reading, budget>>

\* a variant whose timer callback reports to the host without clearing the flag
AutoOff_reportOnly(a) ==
    /\ apc[a] = "timer"
    /\ apc' = [apc EXCEPT ![a] = "idle"]
    /\ idx' = [idx EXCEPT ![a] = 0]
    /\ conn' = [conn EXCEPT ![a] = "none"]
    /\ log' = [log EXCEPT ![a] = <<>>]
    /\ setOn' = [setOn EXCEPT ![a] = FALSE]
    /\ result' = [result EXCEPT ![a] = "none"]
    /\ UNCHANGED <<outside, adapter, device, ctl, isSwitchOn, hb, env, lpc, cpc, wh, reading,
                   budget>>

\* the auto-off timer fires: this.isSwitchOn = false;
\* updateCharacteristic(Characteristic.On, false) reports it to the host.
\* The invocation is over and its records are dropped.
AutoOff(a) ==
    /\ apc[a] = "timer"
    /\ isSwitchOn' = FALSE
    /\ apc' = [apc EXCEPT ![a] = "idle"]
    /\ idx' = [idx EXCEPT ![a] = 0]
    /\ conn' = [conn EXCEPT ![a] = "none"]
    /\ log' = [log EXCEPT ![a] = <<>>]
    /\ setOn' = [setOn EXCEPT ![a] = FALSE]
    /\ result' = [result EXCEPT ![a] = "none"]
    /\ UNCHANGED <<outside, adapter, device, ctl, hb, env, lpc, cpc, wh, reading, budget>>

\* the continuations of one handleSetOn(true) invocation and its timer
handleSetOn(a) ==
    \/ AfterOnDemandConnect(a)
    \/ SendSettleDone(a)
    \/ WriteResolve(a)
    \/ BackoffDone(a)
    \/ AutoOff(a)

\* ------------------------------------------------------------ specification

Next ==
    \/ initNodeBle
    \/ startScanningLoop
    \/ \E c \in Callers : connectDevice(c)
    \/ \E a \in Acts : handleSetOnTrue(a)
    \/ handleSetOnFalse
    \/ \E a \in Acts : handleSetOn(a)
    \/ heartbeatFire
    \/ HeartbeatReadResolve
    \/ LinkLoss

Spec == Init /\ [][Next]_vars

\* Every awaited promise settles and every timer that is due fires;
\* the host's requests and the loss of the link are not forced.
FairSpec ==
    /\ InitFair /\ [][Next]_vars
    /\ WF_vars(initNodeBle)
    /\ WF_vars(startScanningLoop)
    /\ \A c \in Callers : WF_vars(connectDevice(c))
    /\ \A a \in Acts : WF_vars(handleSetOn(a))

\* ------------------------------------------------------- discoverDevices
\* One entry of config.devices, by the keys it has.  The constructor reads
\* service_uuid, write_uuid, notify_uuid and push_packet_hex without a default.
DeviceConfigs ==
    [service_uuid : BOOLEAN, write_uuid : BOOLEAN, notify_uuid : BOOLEAN,
     push_packet_hex : BOOLEAN]

SeqsUpTo(S, n) == UNION {[1..k -> S] : k \in 0..n}

\* new PushBotAccessory(...): (config.service_uuid).toLowerCase() and its two
\* siblings are a TypeError on a missing key, as is Buffer.from(undefined, 'hex')
constructorThrows(deviceConfig) ==
    \/ ~deviceConfig.service_uuid
    \/ ~deviceConfig.write_uuid
    \/ ~deviceConfig.notify_uuid
    \/ ~deviceConfig.push_packet_hex

\* one iteration of for (const deviceConfig of this.config.devices): the
\* accessory is registered after its PushBotAccessory was constructed; nothing
\* catches what the constructor throws, so it leaves discoverDevices
forDeviceConfig ==
    /\ rpc = "loop"
    /\ next <= Len(configDevices)
    /\ IF constructorThrows(configDevices[next])
       THEN /\ rpc' = "threw"
            /\ UNCHANGED <<accessories, next>>
       ELSE /\ accessories' = Append(accessories, next)
            /\ next' = next + 1
            /\ UNCHANGED rpc
    /\ UNCHANGED <<configDevices, matching, adapter, device, ctl, isSwitchOn, hb, env,
                   lpc, cpc, act, reading, budget>>

\* the for loop is through the list
forDone ==
    /\ rpc = "loop"
    /\ next > Len(configDevices)
    /\ rpc' = "done"
    /\ UNCHANGED <<configDevices, accessories, next, matching, adapter, device, ctl,
                   isSwitchOn, hb, env, lpc, cpc, act, reading, budget>>

discoverDevices == forDeviceConfig \/ forDone

\* didFinishLaunching with any list of entries
RegistryInit ==
    /\ configDevices \in SeqsUpTo(DeviceConfigs, MaxDevices)
    /\ accessories = <<>>
    /\ rpc = "loop"
    /\ next = 1
    /\ matchingOff
    /\ constructed /\ budget = MaxRequests

RegistrySpec == RegistryInit /\ [][discoverDevices]_vars

\* ------------------------------------------------------ address comparison
\* the characters address strings are made of here: a hex letter in both
\* cases, a digit and two separators
Alphabet == {"a", "A", "1", ":", "-"}

Strings == SeqsUpTo(Alphabet, MaxAddrLen)

HexLower == {"0", "1", "2", "3", "4", "5", "6", "7", "8", "9", "a", "b", "c", "d", "e", "f"}

\* String.prototype.toLowerCase and toUpperCase on the letters of Alphabet
toLowerCase(str) == [i \in 1..Len(str) |-> IF str[i] = "A" THEN "a" ELSE str[i]]

toUpperCase(str) == [i \in 1..Len(str) |-> IF str[i] = "a" THEN "A" ELSE str[i]]

\* (config.mac_address || '').toLowerCase().replace(/[^0-9a-f]/g, '')
normalizeMac(str) == SelectSeq(toLowerCase(str), LAMBDA ch : ch \in HexLower)

\* addr.toUpperCase().replace(/:/g, '') === this.macAddress.toUpperCase()
addrMatches(a, mac) ==
    SelectSeq(toUpperCase(a), LAMBDA ch : ch # ":") = toUpperCase(mac)

\* the constructor stores the configured address
constructMac ==
    /\ mpc = "new"
    /\ macAddress' = normalizeMac(mac_address)
    /\ mpc' = "constructed"
    /\ UNCHANGED <<mac_address, addr, matched, registry, adapter, device, ctl, isSwitchOn,
                   hb, env, lpc, cpc, act, reading, budget>>

\* the scan compares one discovered address with the stored one
scanCompare ==
    /\ mpc = "constructed"
    /\ \E a \in Strings :
         /\ addr' = a
         /\ matched' = addrMatches(a, macAddress)
    /\ mpc' = "compared"
    /\ UNCHANGED <<mac_address, macAddress, registry, adapter, device, ctl, isSwitchOn,
                   hb, env, lpc, cpc, act, reading, budget>>

MatchingNext == constructMac \/ scanCompare

MatchingInit ==
    /\ mac_address \in Strings
    /\ macAddress = <<>>
    /\ addr = <<>>
    /\ matched = FALSE
    /\ mpc = "new"
    /\ registryOff
    /\ constructed /\ budget = MaxRequests

MatchingSpec == MatchingInit /\ [][MatchingNext]_vars

\* ------------------------------------------------------------------ claims

\* C1: every activation with value true ends, whatever its outcome, with its
\* own auto-off timer firing: the handler reaches the setTimeout on every path
\* (it leaves in no other way), the timer fires, and the firing sets
\* isSwitchOn = false and reports false to the host.
C1_AutoOffAlways ==
    /\ [][\A a \in Acts : apc[a] # "idle" /\ apc'[a] = "idle"
                            => apc[a] = "timer" /\ ~isSwitchOn']_vars
    /\ \A a \in Acts : (apc[a] \notin {"idle", "timer"}) ~> (apc[a] = "timer")
    /\ \A a \in Acts : (apc[a] = "timer") ~> (apc[a] = "idle" /\ ~isSwitchOn)

last(q) == q[Len(q)]

C1_Witness ==
    \E a \in Acts : apc[a] = "timer" /\ conn[a] = "fail"

\* C2: isSwitchOn is set to true only by an activation one of whose writes was
\* acknowledged: an activation whose on-demand connect failed or whose writes
\* failed on all attempts has not set it, and isSwitchOn is true only inside
\* the auto-off window of an activation that had a write acknowledged.
C2_OnOnlyAfterAck ==
    /\ \A a \in Acts : setOn[a] => log[a] # <<>> /\ last(log[a]) = "ack"
    /\ \A a \in Acts : conn[a] = "fail" \/ log[a] = <<"fail", "fail", "fail">> => ~setOn[a]
    /\ isSwitchOn => \E a \in Acts : apc[a] = "timer" /\ setOn[a]

C2_Witness ==
    \E a \in Acts : apc[a] = "timer" /\ log[a] = <<"fail", "fail", "fail">> /\ ~isSwitchOn

\* C3: the promise handleSetOn returns is never rejected: once the handler has
\* run to its end it has resolved, whatever failed on the way.
C3_NeverRejects ==
    \A a \in Acts : result[a] # "rejected" /\ (apc[a] = "timer" => result[a] = "resolved")

C3_Witness ==
    \E a \in Acts : adapter = "failed" /\ ~device /\ conn[a] = "fail" /\ result[a] = "resolved"

\* C4: an activation makes at most 3 write attempts; only the last one can be
\* the acknowledged one and it ends the loop with isSwitchOn set; a failed
\* attempt is followed by the backoff sleep before the next attempt is issued.
C4_RetryLoop ==
    \A a \in Acts :
        /\ Len(log[a]) <= 3
        /\ \A k \in 1..Len(log[a]) - 1 : log[a][k] = "fail"
        /\ apc[a] = "write" => idx[a] = Len(log[a]) /\ idx[a] < 3
        /\ apc[a] = "backoff" => Len(log[a]) = idx[a] + 1 /\ last(log[a]) = "fail"
        /\ log[a] # <<>> /\ last(log[a]) = "ack" => apc[a] = "timer" /\ setOn[a]

C4_Witness ==
    \E a \in Acts : log[a] = <<"fail", "fail", "ack">> /\ setOn[a] /\ isSwitchOn

\* C5: the write handle is set only while isConnected is true.
C5_HandleOnlyWhileConnected == writeChar # "none" => isConnected

\* C6: no write of the push packet is issued through a write handle that was
\* resolved on a connection that has since been lost.
C6_NoStaleWrite == \A a \in Acts : wh[a] # "stale"

\* C7: the heartbeat issues no read while an activation is between the start
\* and the completion of its write retry loop.
C7_NoReadDuringRetry ==
    [][~reading /\ reading' => \A a \in Acts : ~inRetryLoop(a)]_vars

\* C8: whenever the link is lost while isConnected is true, the Controller
\* eventually has isConnected = false and the write handle cleared.
C8_LossIsNoticed ==
    (~linkUp /\ isConnected) ~> (~isConnected /\ writeChar = "none")

\* the awaits of one scan iteration
ScanPcs == {"stop0", "start", "scan", "stop", "devices", "getDevice", "connect"}

\* C9: no error ends the discovery loop: a started loop never stops, a scan
\* iteration is left only into the reconnect sleep, every scan iteration
\* reaches that sleep, and from the sleep the loop starts another scan
\* iteration unless isConnected has become true.
C9_LoopNeverEnds ==
    /\ [][(lpc # "off") => (lpc' # "off")]_vars
    /\ [][(lpc \in ScanPcs /\ ~(lpc' \in ScanPcs)) => (lpc' = "sleep")]_vars
    /\ (lpc \in ScanPcs) ~> (lpc = "sleep")
    /\ (lpc = "sleep" /\ ~isConnected) ~> (lpc = "stop0" \/ isConnected)

\* the loop sleeps after its connect sequence failed: a device handle was
\* resolved, the loop's connectDevice has settled, and no connect ever succeeded
C9_Witness ==
    lpc = "sleep" /\ device /\ ~isConnected /\ ~linkUp /\ losses = 0 /\ budget = MaxFairRequests

\* C10: an activation that found no connection or no write handle runs the
\* connect sequence first and prepares no send before it returned; when the
\* connect sequence failed it attempts no write and does not set isSwitchOn.
C10_ConnectBeforeWrite ==
    \A a \in Acts :
        /\ conn[a] = "needed" => apc[a] = "conn"
        /\ apc[a] \in {"settle", "write", "backoff"} \/ log[a] # <<>>
              => conn[a] \in {"ready", "ok"}
        /\ conn[a] = "fail" => apc[a] = "timer" /\ log[a] = <<>> /\ ~setOn[a]

C10_Witness ==
    \E a \in Acts : conn[a] = "fail" /\ apc[a] = "timer" /\ log[a] = <<>> /\ device

\* C11: the transport connect sets isConnected = true at once, and a connect
\* sequence that fails (at the transport connect, the service resolution or
\* the write-characteristic resolution) has isConnected = false when it throws.
C11_FailureRollsBack ==
    /\ [][\A c \in Callers : (cpc[c] = "connect" /\ cpc'[c] = "service") => isConnected']_vars
    /\ [][\A c \in Callers : (cpc[c] # "threw" /\ cpc'[c] = "threw") => ~isConnected']_vars

\* the loop's sequence connected (the link is up) and then failed, and no
\* activation was ever requested
C11_Witness ==
    cpc[LOOP] = "threw" /\ linkUp /\ ~isConnected /\ budget = MaxRequests

\* C12: a connection whose notify characteristic was not resolved or not
\* subscribed goes on without heartbeat: a heartbeat read is issued only
\* through a handle subscribed on the present connection, or while a connect
\* sequence is still subscribing it.
C12_NoHeartbeatWithoutNotify ==
    [][(~reading /\ reading') =>
          (notifyChar = "subscribed" \/ \E c \in Callers : cpc[c] = "notif")]_vars

\* C13: handleSetOn(false) is a no-op: it starts no connect sequence, no
\* write and no timer, and leaves isConnected, writeChar, isSwitchOn and the
\* heartbeat timer as they were.
C13_FalseIsNoOp ==
    [][handleSetOnFalse =>
          UNCHANGED <<isConnected, writeChar, notifyChar, isSwitchOn, heartbeatTimer,
                      timers, cpc, apc, idx, reading>>]_vars

\* a state in which a request with value false could matter: the switch is
\* on, an auto-off timer is pending and the heartbeat runs
C13_Witness ==
    /\ isSwitchOn /\ isConnected /\ writeChar = "live" /\ timers # {}
    /\ \E a \in Acts : apc[a] = "timer"

\* C14: the registry constructs one Controller per entry in list order, and
\* an entry whose construction throws does not keep any other entry from
\* being constructed: when discoverDevices is over, every entry that can be
\* constructed has been.
C14_OthersStillConstructed ==
    rpc \in {"done", "threw"} =>
        \A i \in 1..Len(configDevices) :
            ~constructorThrows(configDevices[i]) =>
                \E j \in 1..Len(accessories) : accessories[j] = i

\* the digits of an address, whatever its case and separators
hexDigits(str) == SelectSeq(toLowerCase(str), LAMBDA ch : ch \notin {":", "-"})

\* C15: the discovered address matches the configured one exactly when the
\* two have the same hex digits, whatever case and separators (colons,
\* dashes, none) either of them uses.
C15_MatchIgnoresCaseAndSeparators ==
    (mpc = "compared" /\ hexDigits(mac_address) # <<>>) =>
        (matched <=> hexDigits(addr) = hexDigits(mac_address))

inFlight(c) == cpc[c] \in {"connect", "service", "wchar", "nchar", "notif"}

\* C16: connect sequences are not serialized.  A sequence that starts while
\* another is in flight leaves that one where it is, and every sequence in
\* flight runs on to its own return or throw.
C16_NotSerialized ==
    /\ [][\A c, d \in Callers :
            (c # d /\ inFlight(c) /\ cpc[d] = "idle" /\ cpc'[d] # "idle")
                => cpc'[c] = cpc[c]]_vars
    /\ \A c \in Callers : inFlight(c) ~> (cpc[c] \in {"returned", "threw"})

\* the loop's sequence and an activation's on-demand sequence are in flight
\* at the same time
C16_Witness ==
    inFlight(LOOP) /\ \E a \in Acts : inFlight(a) /\ apc[a] = "conn"

\* C17: once the disconnect listener has run (the link is lost, isConnected
\* is false and writeChar is null) the heartbeat timer is not running, and it
\* stays so while the Controller is disconnected, whatever an activation
\* that was in progress at the disconnect does.
C17_NoTimerAfterDisconnect ==
    (losses > 0 /\ ~linkUp /\ ~isConnected /\ writeChar = "none") => timers = {}

\* C18: auto-off timers are never cancelled.  A pending timer stays pending
\* until it fires, every firing leaves isSwitchOn false, and when no
\* activation is in progress and no timer is pending isSwitchOn is false.
C18_TimersNeverCancelled ==
    /\ [][\A a \in Acts : apc[a] = "timer" =>
            (apc'[a] = "timer" \/ (apc'[a] = "idle" /\ ~isSwitchOn'))]_vars
    /\ []((\A a \in Acts : apc[a] = "idle") => ~isSwitchOn)

\* two activations overlap: both timers are pending and the switch is on
C18_Witness ==
    isSwitchOn /\ \A a \in Acts : apc[a] = "timer"

\* C19: after an acknowledged activation has set isSwitchOn, the flag stays
\* true until that activation's own auto-off timer fires: while the timer of
\* an activation that set the flag is pending, the flag is true.
C19_OnUntilOwnTimer ==
    \A a \in Acts : (setOn[a] /\ apc[a] = "timer") => isSwitchOn

\* C19, amended: the flag stays true until the next auto-off timer fires,
\* whichever activation scheduled it (nothing but an auto-off timer turns the
\* flag off), and for an activation that no other overlaps that timer is its own.
C19_OnUntilNextTimer ==
    /\ [][(isSwitchOn /\ ~isSwitchOn') =>
            \E a \in Acts : apc[a] = "timer" /\ apc'[a] = "idle"]_vars
    /\ [](\A a \in Acts :
            (budget = MaxRequests - 1 /\ setOn[a] /\ apc[a] = "timer") => isSwitchOn)

\* the timer of an earlier, overlapping activation has turned the flag off
\* while the timer of the activation that set it last is still pending
C19_Witness ==
    ~isSwitchOn /\ \E a \in Acts : setOn[a] /\ apc[a] = "timer"

\* C20: at most one heartbeat interval timer is live per Controller, and it
\* is the one this.heartbeatTimer names: every start cancels the timer
\* started before it.
C20_OneHeartbeatTimer ==
    Cardinality(timers) <= 1 /\ timers \subseteq {heartbeatTimer}

\* the heartbeat was started by the connect sequence and started again at
\* the end of an activation
C20_Witness ==
    /\ notifyChar = "subscribed" /\ timers # {}
    /\ \E a \in Acts : apc[a] = "timer" /\ conn[a] = "ready"

====
